---- MODULE Spec2Model ----
(***************************************************************************)
(* Model of the Shopify store crawler (backend/crawler/main.py) and of the *)
(* re-crawl trigger of the HTTP front end (backend/app.py).                *)
(*                                                                         *)
(* Text is modelled as a sequence of one-character strings, so that        *)
(* lower-casing, substring search and pattern matching are computed, not   *)
(* assumed.  Prices are exact binary fractions, counted in eighths of a    *)
(* currency unit, so that float arithmetic on them is exact.               *)
(***************************************************************************)
EXTENDS Integers, Sequences, FiniteSets, TLC

VARIABLES
    call,       \* arguments of the pure function under check (or NoCall)
    ret,        \* its return value (or Pending)
    web,        \* the mocked fetch layer: domain -> index of its site in Sites
    DOMAINS,    \* the loaded domain list
    idx,        \* position of the run loop in DOMAINS (1-based, next to analyse)
    results,    \* the run's result list
    outcomes,   \* history: what analyze_shopify_store did for each analysed entry
    clock,      \* time.time(), in whole seconds
    written,    \* content of shopify_data.json (NotWritten before the dump)
    lock,       \* whether the file crawler.lock exists
    handler,    \* per request handler thread: its position in recrawl()
    reply,      \* per request handler thread: the last reply it gave
    crawl,      \* per background thread: its position in _async_crawl()
    last_run,   \* whether output/last_run.txt has been written
    hashseed    \* the string hash seed of the running interpreter

vars == <<call, ret, web, DOMAINS, idx, results, outcomes, clock, written,
          lock, handler, reply, crawl, last_run, hashseed>>

pureVars == <<call, ret>>
runVars == <<web, DOMAINS, idx, results, outcomes, clock, written, hashseed>>
appVars == <<lock, handler, reply, crawl, last_run>>

-----------------------------------------------------------------------------
(* Text helpers: Python str operations on character sequences.             *)

UpperLetters == <<"A","B","C","D","E","F","G","H","I","J","K","L","M",
                  "N","O","P","Q","R","S","T","U","V","W","X","Y","Z">>
LowerLetters == <<"a","b","c","d","e","f","g","h","i","j","k","l","m",
                  "n","o","p","q","r","s","t","u","v","w","x","y","z">>
Digits == {"0","1","2","3","4","5","6","7","8","9"}

UpperSet == {UpperLetters[i] : i \in 1..26}
LowerSet == {LowerLetters[i] : i \in 1..26}
IsUpper(c) == c \in UpperSet
IsLower(c) == c \in LowerSet
IsAlpha(c) == IsUpper(c) \/ IsLower(c)

\* str.lower() on one character
ToLower == [c \in UpperSet |-> LowerLetters[CHOOSE i \in 1..26 : UpperLetters[i] = c]]
LowerChar(c) == IF IsUpper(c) THEN ToLower[c] ELSE c

\* str.upper() on one character
ToUpper == [c \in LowerSet |-> UpperLetters[CHOOSE i \in 1..26 : LowerLetters[i] = c]]
UpperChar(c) == IF IsLower(c) THEN ToUpper[c] ELSE c

\* str.lower()
lower(s) == [i \in 1..Len(s) |-> LowerChar(s[i])]

\* s.startswith(sub, i - 1) for a 1-based position i
StartsAt(s, i, sub) ==
    /\ i + Len(sub) - 1 <= Len(s)
    /\ \A j \in 1..Len(sub) : s[i + j - 1] = sub[j]

\* sub in s
Contains(s, sub) == \E i \in 1..(Len(s) + 1) : StartsAt(s, i, sub)

RECURSIVE Flatten(_)
\* "".join(parts), the concatenation of a list of lists (by halves, to keep
\* the evaluation shallow)
Flatten(parts) ==
    IF parts = <<>> THEN <<>>
    ELSE IF Len(parts) = 1 THEN parts[1]
    ELSE LET h == Len(parts) \div 2
         IN Flatten(SubSeq(parts, 1, h)) \o Flatten(SubSeq(parts, h + 1, Len(parts)))

\* sep.join(parts)
Join(parts, sep) ==
    Flatten([i \in 1..(2 * Len(parts) - 1) |->
                IF i % 2 = 1 THEN parts[(i + 1) \div 2] ELSE sep])

\* min(S), max(S)
Min(S) == CHOOSE x \in S : \A y \in S : x <= y
Max(S) == CHOOSE x \in S : \A y \in S : x >= y

\* All sequences over S of length at most n
SeqsUpTo(S, n) == UNION {[1..k -> S] : k \in 0..n}

-----------------------------------------------------------------------------
(* Literals of main.py                                                     *)

S_cdn      == <<"c","d","n",".","s","h","o","p","i","f","y",".","c","o","m">>
S_features == <<"s","h","o","p","i","f","y","-","f","e","a","t","u","r","e","s">>
S_shopify  == <<"s","h","o","p","i","f","y">>
S_script   == <<"s","c","r","i","p","t">>
S_cart     == <<"/","c","a","r","t">>
S_products == <<"/","p","r","o","d","u","c","t","s","/">>

-----------------------------------------------------------------------------
(* is_shopify_store(html_str, headers): headers is the set of header keys  *)

\* is_shopify_store without the lower-casing of the body and of the keys
is_shopify_store_case_sensitive(html_str, headers) ==
    IF Contains(html_str, S_cdn) THEN TRUE
    ELSE IF Contains(html_str, S_features) THEN TRUE
    ELSE IF Contains(html_str, S_shopify) /\ Contains(html_str, S_script) THEN TRUE
    ELSE IF \E k \in headers : Contains(k, S_shopify) THEN TRUE
    ELSE IF Contains(html_str, S_cart) /\ Contains(html_str, S_products) THEN TRUE
    ELSE FALSE

is_shopify_store(html_str, headers) ==
    LET low == lower(html_str) IN
    IF Contains(low, S_cdn) THEN TRUE
    ELSE IF Contains(low, S_features) THEN TRUE
    ELSE IF Contains(low, S_shopify) /\ Contains(low, S_script) THEN TRUE
    ELSE IF \E k \in headers : Contains(lower(k), S_shopify) THEN TRUE
    ELSE IF Contains(low, S_cart) /\ Contains(low, S_products) THEN TRUE
    ELSE FALSE

-----------------------------------------------------------------------------
(* String order: Python compares str by code point.                        *)

Ascii ==
    <<" ","!","\"","#","$","%","&","'","(",")","*","+",",","-",".","/",
      "0","1","2","3","4","5","6","7","8","9",":",";","<","=",">","?",
      "@","A","B","C","D","E","F","G","H","I","J","K","L","M","N","O",
      "P","Q","R","S","T","U","V","W","X","Y","Z","[","\\","]","^","_",
      "grave","a","b","c","d","e","f","g","h","i","j","k","l","m","n","o",
      "p","q","r","s","t","u","v","w","x","y","z","{","|","}","~">>

\* The ASCII control characters that count as whitespace, codes 9..13 and
\* 28..31 (those that cannot be written in a string are spelled out)
ControlLow == <<"\t", "\n", "VT", "\f", "\r">>
ControlHigh == <<"FS", "GS", "RS", "US">>

\* ord(c) for ASCII (the grave accent, code 96, is spelled out)
Ord(c) ==
    IF \E i \in 1..Len(ControlLow) : ControlLow[i] = c
    THEN 8 + (CHOOSE i \in 1..Len(ControlLow) : ControlLow[i] = c)
    ELSE IF \E i \in 1..Len(ControlHigh) : ControlHigh[i] = c
    THEN 27 + (CHOOSE i \in 1..Len(ControlHigh) : ControlHigh[i] = c)
    ELSE 31 + (CHOOSE i \in 1..Len(Ascii) : Ascii[i] = c)

RECURSIVE StrLess(_, _)
\* a < b on str
StrLess(a, b) ==
    IF b = <<>> THEN FALSE
    ELSE IF a = <<>> THEN TRUE
    ELSE IF a[1] # b[1] THEN Ord(a[1]) < Ord(b[1])
    ELSE StrLess(Tail(a), Tail(b))

\* sorted(items, key=...): stable; less[i][j] says that the key of items[i]
\* is below the key of items[j].  An item's place is the number of items
\* that sort before it.
SortedBy(items, less) ==
    LET n == Len(items)
        before(j, i) == \/ less[j][i]
                        \/ (~less[i][j] /\ j < i)
        place(i) == 1 + Cardinality({j \in 1..n : before(j, i)})
    IN [p \in 1..n |-> items[CHOOSE i \in 1..n : place(i) = p]]

\* seq[:k]
Take(seq, k) == SubSeq(seq, 1, IF Len(seq) < k THEN Len(seq) ELSE k)

\* list.count(x)
Count(seq, x) == Cardinality({i \in 1..Len(seq) : seq[i] = x})

\* the set of elements of a list
Range(seq) == {seq[i] : i \in 1..Len(seq)}

\* keys of a dict filled in list order: first occurrences, in order
Dedup(seq) ==
    LET first == {Min({i \in 1..Len(seq) : seq[i] = x}) : x \in Range(seq)}
        IsFirst(i) == i \in first
        firsts == SelectSeq([i \in 1..Len(seq) |-> i], IsFirst)
    IN [k \in 1..Len(firsts) |-> seq[firsts[k]]]

RECURSIVE Arrangements(_)
\* Every order the elements of the set S can be listed in
Arrangements(S) ==
    IF S = {} THEN {<<>>}
    ELSE UNION {{<<x>> \o q : q \in Arrangements(S \ {x})} : x \in S}

RECURSIVE HashSeeds(_)
\* The string hash seeds of an interpreter process, told apart by what they
\* decide: a seed gives every list in lists the order in which list(set(..))
\* of it comes out.  The order depends on the seed, on the strings and on the
\* order they were inserted in, and is the same whenever the same list is
\* made a set within one process; any order of the distinct elements is the
\* order under some seed, and the orders of different lists are unrelated.
HashSeeds(lists) ==
    IF lists = {} THEN {<<>>}
    ELSE LET l == CHOOSE x \in lists : TRUE
         IN {(l :> q) @@ seed : q \in Arrangements(Range(l)),
                               seed \in HashSeeds(lists \ {l})}

\* list(set(items)) in a process with the hash seed
ListOfSet(items, seed) == seed[items]

-----------------------------------------------------------------------------
(* The mocked fetch layer.  A response of fetch(url) is a record            *)
(*   exc    fetch() raised (connection failure, DNS failure, timeout)       *)
(*   status r.status_code                                                   *)
(*   json   "json" in r.headers.get("Content-Type", "")                     *)
(*   valid  r.json() returns the decoded body (it raises on a body that is  *)
(*          not JSON)                                                       *)
(* and the decoded body, as far as the caller reads it.                     *)
(*                                                                          *)
(* The decoded body of /meta.json is one of                                 *)
(*   [kind |-> "none"]                       null                           *)
(*   [kind |-> "other", type, truthy]        any other value; type is its   *)
(*       Python type name: list, str, int, float, bool                      *)
(*   [kind |-> "dict", shop |-> v]           a dict, v its "shop" entry:    *)
(*       [kind |-> "absent"]                 no such key                    *)
(*       [kind |-> "other", type]            not a dict (null, a string...) *)
(*       [kind |-> "dict", has_name, name]   a dict, with its "name" entry  *)

\* r.status_code == 200 and "json" in r.headers.get("Content-Type", "")
IsJson200(r) == r.status = 200 /\ r.json

\* meta.json that is absent (None)
NoMeta == [kind |-> "none"]

\* fetch_shopify_meta(base_url), r the response of /meta.json
fetch_shopify_meta(r) ==
    IF r.exc THEN NoMeta
    ELSE IF IsJson200(r) THEN (IF r.valid THEN r.meta ELSE NoMeta)
    ELSE NoMeta

\* products_page reading the body whatever the status code
products_page_any_status(r, limit) ==
    IF r.exc THEN [batch |-> <<>>, more |-> FALSE]
    ELSE IF ~r.json THEN [batch |-> <<>>, more |-> FALSE]
    ELSE IF ~r.valid THEN [batch |-> <<>>, more |-> FALSE]
    ELSE LET batch == IF r.null THEN <<>> ELSE r.products
         IN IF batch = <<>> THEN [batch |-> <<>>, more |-> FALSE]
            ELSE IF Len(batch) < limit THEN [batch |-> batch, more |-> FALSE]
            ELSE [batch |-> batch, more |-> TRUE]

\* products_page taking a page of exactly limit products for the last one
products_page_full_is_last(r, limit) ==
    IF r.exc THEN [batch |-> <<>>, more |-> FALSE]
    ELSE IF r.status # 200 \/ ~r.json THEN [batch |-> <<>>, more |-> FALSE]
    ELSE IF ~r.valid THEN [batch |-> <<>>, more |-> FALSE]
    ELSE LET batch == IF r.null THEN <<>> ELSE r.products
         IN IF batch = <<>> THEN [batch |-> <<>>, more |-> FALSE]
            ELSE IF Len(batch) <= limit THEN [batch |-> batch, more |-> FALSE]
            ELSE [batch |-> batch, more |-> TRUE]

\* One iteration of the loop of fetch_shopify_products on the response r of
\* a page: the batch it adds to products, and whether the loop goes on
products_page(r, limit) ==
    IF r.exc THEN [batch |-> <<>>, more |-> FALSE]
    ELSE IF r.status # 200 \/ ~r.json THEN [batch |-> <<>>, more |-> FALSE]
    ELSE IF ~r.valid THEN [batch |-> <<>>, more |-> FALSE]
    ELSE LET batch == IF r.null THEN <<>> ELSE r.products
         IN IF batch = <<>> THEN [batch |-> <<>>, more |-> FALSE]
            ELSE IF Len(batch) < limit THEN [batch |-> batch, more |-> FALSE]
            ELSE [batch |-> batch, more |-> TRUE]

RECURSIVE products_loop(_, _, _, _, _, _)
\* for page in range(1, page_limit + 1), from `page` on; `requested` lists
\* the pages fetched so far
products_loop(pages, limit, page_limit, page, products, requested) ==
    IF page > page_limit THEN [products |-> products, requested |-> requested]
    ELSE LET step == products_page(pages[page], limit)
         IN IF step.more
            THEN products_loop(pages, limit, page_limit, page + 1,
                               products \o step.batch, Append(requested, page))
            ELSE [products |-> products \o step.batch,
                  requested |-> Append(requested, page)]

\* fetch_shopify_products(base_url, limit, page_limit); pages[n] is the
\* response of /products.json?limit={limit}&page={n}
fetch_shopify_products(pages, limit, page_limit) ==
    products_loop(pages, limit, page_limit, 1, <<>>, <<>>)

\* Defaults of fetch_shopify_products
DefaultLimit == 250
DefaultPageLimit == 2

\* fetch_shopify_collections(base_url), r the response of /collections.json
fetch_shopify_collections(r) ==
    IF r.exc THEN <<>>
    ELSE IF IsJson200(r) THEN (IF r.valid THEN r.collections ELSE <<>>)
    ELSE <<>>

-----------------------------------------------------------------------------
(* extract_keywords(text, topk); yake is the list of (term, score) pairs    *)
(* the YAKE extractor returns for the text                                  *)

StripChars == {" ", ".", ",", ":", ";", "|", "/", "\\", "-"}

RECURSIVE LStrip(_, _)
LStrip(s, chars) ==
    IF s # <<>> /\ s[1] \in chars THEN LStrip(Tail(s), chars) ELSE s

RECURSIVE RStrip(_, _)
RStrip(s, chars) ==
    IF s # <<>> /\ s[Len(s)] \in chars
    THEN RStrip(SubSeq(s, 1, Len(s) - 1), chars) ELSE s

\* s.strip(chars)
Strip(s, chars) == RStrip(LStrip(s, chars), chars)

BadTerms == { <<"c","o","o","k","i","e">>, <<"p","r","i","v","a","c","y">>,
              <<"p","o","l","i","c","y">>, <<"l","o","g","i","n">> }

\* the elements of seq that are in Keep, order kept
Filter(seq, Keep) ==
    LET IsKept(x) == x \in Keep IN SelectSeq(seq, IsKept)

extract_keywords(text, topk, yake) ==
    IF text = <<>> THEN <<>>
    ELSE LET LessScore(a, b) == a.score < b.score
             less == [i \in 1..Len(yake) |->
                         [j \in 1..Len(yake) |-> LessScore(yake[i], yake[j])]]
             ordered == SortedBy(yake, less)
             terms == [i \in 1..Len(ordered) |->
                          lower(Strip(ordered[i].term, StripChars))]
             good == {t \in Range(terms) :
                         /\ Len(t) >= 3
                         /\ ~\E bad \in BadTerms : Contains(t, bad)}
         IN Take(Filter(terms, good), topk)

-----------------------------------------------------------------------------
(* summarize_products(products)                                             *)

\* The ASCII characters str.strip() removes: space and the control
\* characters \t \n \v \f \r and \x1c..\x1f
Whitespace == {" "} \cup Range(ControlLow) \cup Range(ControlHigh)

\* Utility top(items, k) of summarize_products: (item, count) pairs of the
\* non-empty items, most frequent first, ties by ascending item
top(items, k) ==
    LET nonempty(x) == x # <<>>
        keys == Dedup(SelectSeq(items, nonempty))
        freq == [i \in 1..Len(keys) |-> <<keys[i], Count(items, keys[i])>>]
        Less(a, b) == \/ a[2] > b[2]
                      \/ (a[2] = b[2] /\ StrLess(a[1], b[1]))
        less == [i \in 1..Len(freq) |->
                    [j \in 1..Len(freq) |-> Less(freq[i], freq[j])]]
    IN Take(SortedBy(freq, less), k)

\* Characters that the title tokenizer keeps: [A-Za-z0-9+&'-]
IsTokenChar(c) == IsAlpha(c) \/ c \in Digits \/ c \in {"+", "&", "'", "-"}

RECURSIVE SplitFrom(_, _, _, _)
\* re.split(r"[^A-Za-z0-9+&'-]+", s) from position i on; cur is the token
\* being read, insep whether the previous character was a separator
SplitFrom(s, i, cur, insep) ==
    IF i > Len(s) THEN <<cur>>
    ELSE IF IsTokenChar(s[i]) THEN SplitFrom(s, i + 1, Append(cur, s[i]), FALSE)
    ELSE IF insep THEN SplitFrom(s, i + 1, cur, TRUE)
    ELSE <<cur>> \o SplitFrom(s, i + 1, <<>>, TRUE)

split_title(s) == SplitFrom(s, 1, <<>>, FALSE)

\* w.isdigit()
isdigit(w) == w # <<>> /\ \A i \in 1..Len(w) : w[i] \in Digits

\* The words kept from the product titles
title_words(titles) ==
    LET tokens == Flatten([i \in 1..Len(titles) |-> split_title(lower(titles[i]))])
        kept(w) == Len(w) >= 3 /\ Len(w) <= 20 /\ ~isdigit(w)
    IN SelectSeq(tokens, kept)

\* title_terms sorting by count alone: equal counts stay in hash order
title_terms_by_count_only(words, seed) ==
    LET items == ListOfSet(words, seed)
        freq == [i \in 1..Len(items) |-> <<items[i], Count(words, items[i])>>]
        Less(a, b) == a[2] > b[2]
        less == [i \in 1..Len(freq) |->
                    [j \in 1..Len(freq) |-> Less(freq[i], freq[j])]]
        ranked == Take(SortedBy(freq, less), 20)
    IN [i \in 1..Len(ranked) |-> ranked[i][1]]

\* title_terms of summarize_products: set(words) is iterated in hash order
\* and then sorted by (-count, word)
title_terms(words, seed) ==
    LET items == ListOfSet(words, seed)
        freq == [i \in 1..Len(items) |-> <<items[i], Count(words, items[i])>>]
        Less(a, b) == \/ a[2] > b[2]
                      \/ (a[2] = b[2] /\ StrLess(a[1], b[1]))
        less == [i \in 1..Len(freq) |->
                    [j \in 1..Len(freq) |-> Less(freq[i], freq[j])]]
        ranked == Take(SortedBy(freq, less), 20)
    IN [i \in 1..Len(ranked) |-> ranked[i][1]]

summarize_products(products, seed) ==
    LET n == Len(products)
        types == [i \in 1..n |-> Strip(products[i].product_type, Whitespace)]
        vendors == [i \in 1..n |-> Strip(products[i].vendor, Whitespace)]
        tags == Flatten([i \in 1..n |-> products[i].tags])
        titles == [i \in 1..n |-> products[i].title]
    IN [product_types_top |-> top(types, 8),
        vendors_top |-> top(vendors, 5),
        tags_top |-> top(tags, 10),
        title_terms_top |-> title_terms(title_words(titles), seed),
        total_products_sampled |-> n,
        example_titles |-> Take(titles, 8)]

-----------------------------------------------------------------------------
(* summarize_prices(products).  A variant's "price" is                      *)
(*   [kind |-> "num", v |-> k]   a number or numeric string worth k/8       *)
(*   [kind |-> "bad", v |-> 0]   a value float() rejects ("bad", None)      *)
(*   [kind |-> "missing", v |-> 0]  no "price" key: v.get("price", 0)       *)
(* min_price and max_price are in eighths, avg_price in hundredths.         *)

\* price_counts letting a price of zero through
price_counts_nonnegative(price) == price.kind = "num" /\ price.v >= 0

\* float(v.get("price", 0)) succeeds and is > 0
price_counts(price) == price.kind = "num" /\ price.v > 0

\* the values, in eighths, of the prices that count, in order
positive_prices(all) ==
    LET counted == SelectSeq(all, price_counts)
    IN [i \in 1..Len(counted) |-> counted[i].v]

\* the prices list built by the two loops, in eighths
prices_of(products) ==
    positive_prices(Flatten([i \in 1..Len(products) |->
        [j \in 1..Len(products[i].variants) |-> products[i].variants[j].price]]))

RECURSIVE Sum(_)
\* sum(seq) (by halves, to keep the evaluation shallow)
Sum(seq) ==
    IF seq = <<>> THEN 0
    ELSE IF Len(seq) = 1 THEN seq[1]
    ELSE LET h == Len(seq) \div 2
         IN Sum(SubSeq(seq, 1, h)) + Sum(SubSeq(seq, h + 1, Len(seq)))

RECURSIVE Pow2(_)
Pow2(e) == IF e = 0 THEN 1 ELSE 2 * Pow2(e - 1)

RECURSIVE Pow2Mod(_, _)
\* 2^k mod m, by squaring
Pow2Mod(k, m) ==
    IF k = 0 THEN 1 % m
    ELSE LET h == Pow2Mod(k \div 2, m)
         IN (h * h * (IF k % 2 = 1 THEN 2 ELSE 1)) % m

RECURSIVE ExponentUp(_, _, _)
\* the largest e >= from with q * 2^e <= p, for p >= q * 2^from
ExponentUp(p, q, from) ==
    IF q * Pow2(from + 1) <= p THEN ExponentUp(p, q, from + 1) ELSE from

RECURSIVE ExponentDown(_, _, _)
\* the least j >= from with p * 2^j >= q
ExponentDown(p, q, from) ==
    IF p * Pow2(from) < q THEN ExponentDown(p, q, from + 1) ELSE from

\* floor(log2(p / q)) for p, q > 0: the binary exponent of the float p / q
FloorLog2(p, q) == IF p >= q THEN ExponentUp(p, q, 0) ELSE 0 - ExponentDown(p, q, 1)

\* Whether the double nearest to p / q lies below p / q: the 53-bit
\* significand is p * 2^k / q rounded to nearest, with k = 52 - exponent,
\* and it is rounded down when the remainder is less than half of q
FloatIsBelow(p, q) ==
    LET k == 52 - FloorLog2(p, q)
        rem == ((p % q) * Pow2Mod(k, q)) % q
    IN 2 * rem < q

\* round(sum(prices) / len(prices), 2), in hundredths, for prices in eighths
\* that sum to total: (total / 8 / n) * 100 = 25 * total / (2 * n).
\* round() rounds the double it is given: to nearest, and when the exact
\* mean is half-way between two hundredths, to even if the double is the
\* exact mean (a whole number of eighths), else to the side the double is on
rounded_mean(total, n) ==
    LET num == 25 * total
        den == 2 * n
        q == num \div den
        r == num % den
    IN IF 2 * r < den THEN q
       ELSE IF 2 * r > den THEN q + 1
       ELSE IF total % n = 0 THEN (IF q % 2 = 0 THEN q ELSE q + 1)
       ELSE IF FloatIsBelow(total, 8 * n) THEN q ELSE q + 1

\* summarize_prices returned None
NoPrices == [none |-> TRUE, min_price |-> 0, max_price |-> 0,
             avg_price |-> 0, num_prices |-> 0]

summarize_prices(products) ==
    LET prices == prices_of(products)
    IN IF prices = <<>> THEN NoPrices
       ELSE [none |-> FALSE,
             min_price |-> Min(Range(prices)),
             max_price |-> Max(Range(prices)),
             avg_price |-> rounded_mean(Sum(prices), Len(prices)),
             num_prices |-> Len(prices)]

-----------------------------------------------------------------------------
(* extract_social_links(html)                                               *)

SocialPlatforms ==
    << <<"i","n","s","t","a","g","r","a","m">>,
       <<"f","a","c","e","b","o","o","k">>,
       <<"t","i","k","t","o","k">>,
       <<"y","o","u","t","u","b","e">>,
       <<"t","w","i","t","t","e","r">>,
       <<"x",".","c","o","m">> >>

UrlChars == {"_", ".", "-", "/", "%"}

\* [A-Za-z0-9_.\-/%] (re.IGNORECASE changes nothing here)
IsUrlChar(c) == IsAlpha(c) \/ c \in Digits \/ c \in UrlChars

\* The pattern text pat matches s at position i, ignoring case; a "." of
\* the pattern that is not escaped (dots == TRUE) matches any character but
\* a newline
MatchesAt(s, i, pat, dots) ==
    /\ i + Len(pat) - 1 <= Len(s)
    /\ \A j \in 1..Len(pat) :
          IF dots /\ pat[j] = "." THEN s[i + j - 1] # "\n"
          ELSE LowerChar(s[i + j - 1]) = LowerChar(pat[j])

RECURSIVE UrlRunEnd(_, _)
\* the position after the longest run of URL characters that starts at i
UrlRunEnd(s, i) ==
    IF i <= Len(s) /\ IsUrlChar(s[i]) THEN UrlRunEnd(s, i + 1) ELSE i

\* After the scheme and the optional www.: {platform}\.com/[...]+ at i.
\* The end of the match (exclusive), or 0
HostMatchEnd(s, i, platform) ==
    LET j == i + Len(platform)
        k == j + 5
    IN IF /\ MatchesAt(s, i, platform, TRUE)
          /\ MatchesAt(s, j, <<".","c","o","m","/">>, FALSE)
          /\ UrlRunEnd(s, k) > k
       THEN UrlRunEnd(s, k) ELSE 0

\* https?://(?:www\.)?{platform}\.com/[A-Za-z0-9_.\-/%]+ at position i.
\* The end of the match (exclusive), or 0; the optional parts are tried
\* present first
SocialMatchEnd(s, i, platform) ==
    IF s[i] \notin {"h", "H"} THEN 0
    ELSE IF ~MatchesAt(s, i, <<"h","t","t","p">>, FALSE) THEN 0
    ELSE LET afterScheme(p) ==
                 IF ~MatchesAt(s, p, <<":","/","/">>, FALSE) THEN 0
                 ELSE LET h == p + 3
                          www == IF MatchesAt(s, h, <<"w","w","w",".">>, FALSE)
                                 THEN HostMatchEnd(s, h + 4, platform) ELSE 0
                      IN IF www # 0 THEN www ELSE HostMatchEnd(s, h, platform)
             secure == IF MatchesAt(s, i + 4, <<"s">>, FALSE)
                       THEN afterScheme(i + 5) ELSE 0
         IN IF secure # 0 THEN secure ELSE afterScheme(i + 4)

RECURSIVE FindAllFrom(_, _, _)
\* re.findall from position i on: the matches, left to right, not
\* overlapping; the scan resumes where a match ends
FindAllFrom(s, i, platform) ==
    LET starts == {j \in i..Len(s) : SocialMatchEnd(s, j, platform) # 0}
    IN IF starts = {} THEN <<>>
       ELSE LET j == Min(starts)
                e == SocialMatchEnd(s, j, platform)
            IN <<SubSeq(s, j, e - 1)>> \o FindAllFrom(s, e, platform)

RECURSIVE social_entries(_, _, _)
\* the loop over the platforms: the (platform, links) entries added to the
\* dict, in insertion order
social_entries(html, platforms, seed) ==
    IF platforms = <<>> THEN <<>>
    ELSE LET matches == FindAllFrom(html, 1, platforms[1])
             rest == social_entries(html, Tail(platforms), seed)
         IN IF matches # <<>>
            THEN <<[platform |-> platforms[1],
                    links |-> ListOfSet(matches, seed)]>> \o rest
            ELSE rest

extract_social_links(html, seed) == social_entries(html, SocialPlatforms, seed)

-----------------------------------------------------------------------------
(* detect_buy_with_prime(html)                                              *)

BwpIndicators ==
    { <<"b","u","y","w","i","t","h","p","r","i","m","e",".","a","m","a","z","o","n">>,
      <<"b","u","y","-","w","i","t","h","-","p","r","i","m","e">>,
      <<"b","w","p",".","j","s">>,
      <<"b","w","p","-","c","l","i","e","n","t">>,
      <<"d","a","t","a","-","b","w","p">>,
      <<"a","m","a","z","o","n","p","a","y">> }

detect_buy_with_prime(html) ==
    LET low == lower(html) IN \E token \in BwpIndicators : Contains(low, token)

-----------------------------------------------------------------------------
(* describe_store_semantic(domain, meta, offerings, keywords)               *)

CATEGORIES ==
    << <<"c","l","o","t","h","i","n","g">>,
       <<"f","o","o","t","w","e","a","r">>,
       <<"j","e","w","e","l","r","y">>,
       <<"w","a","t","c","h","e","s">>,
       <<"h","o","m","e"," ","d","e","c","o","r">>,
       <<"f","u","r","n","i","t","u","r","e">>,
       <<"b","e","a","u","t","y"," ","p","r","o","d","u","c","t","s">>,
       <<"s","p","o","r","t","s"," ","g","e","a","r">>,
       <<"e","l","e","c","t","r","o","n","i","c","s">>,
       <<"f","o","o","d"," ","a","n","d"," ","b","e","v","e","r","a","g","e","s">>,
       <<"p","e","t"," ","s","u","p","p","l","i","e","s">>,
       <<"t","o","y","s"," ","a","n","d"," ","g","a","m","e","s">>,
       <<"a","r","t"," ","a","n","d"," ","p","r","i","n","t","s">>,
       <<"o","u","t","d","o","o","r"," ","e","q","u","i","p","m","e","n","t">>,
       <<"s","t","a","t","i","o","n","e","r","y">> >>

\* s.split(".")[0]
BeforeDot(s) ==
    IF \E i \in 1..Len(s) : s[i] = "."
    THEN SubSeq(s, 1, (CHOOSE i \in 1..Len(s) :
                          s[i] = "." /\ \A j \in 1..(i - 1) : s[j] # ".") - 1)
    ELSE s

\* str.title(): a letter is upper-cased after a non-letter, lower-cased
\* after a letter
title(s) ==
    [i \in 1..Len(s) |->
        IF ~IsAlpha(s[i]) THEN s[i]
        ELSE IF i > 1 /\ IsAlpha(s[i - 1]) THEN LowerChar(s[i])
        ELSE UpperChar(s[i])]

\* The composite text that is embedded
composite_text(offerings, keywords) ==
    LET firsts(pairs) == [i \in 1..Len(pairs) |-> pairs[i][1]]
        text == Join(keywords
                     \o firsts(offerings.product_types_top)
                     \o offerings.title_terms_top
                     \o firsts(offerings.tags_top), <<" ">>)
    IN IF text = <<>> THEN <<"p","r","o","d","u","c","t","s">> ELSE text

\* sims.index(max(sims))
FirstMaxIndex(sims) ==
    CHOOSE i \in 1..Len(sims) :
        /\ \A j \in 1..Len(sims) : sims[j] <= sims[i]
        /\ \A j \in 1..(i - 1) : sims[j] < sims[i]

\* str(e) of the AttributeError that x.get raises on an x of the type
\* (type is type(x).__name__: list, str, int, float, bool, NoneType)
NoGet(type) == "'" \o type \o "' object has no attribute 'get'"

Value(v) == [raised |-> FALSE, error |-> "", value |-> v]
Raises(error) == [raised |-> TRUE, error |-> error, value |-> <<>>]

\* (meta or {}).get("shop", {}).get("name") or domain.split(".")[0].title()
display_name(domain, meta) ==
    LET fallback == Value(title(BeforeDot(domain)))
    IN IF meta.kind = "none" THEN fallback
       ELSE IF meta.kind = "other"
       THEN (IF meta.truthy THEN Raises(NoGet(meta.type)) ELSE fallback)
       ELSE IF meta.shop.kind = "absent" THEN fallback
       ELSE IF meta.shop.kind = "other" THEN Raises(NoGet(meta.shop.type))
       ELSE IF meta.shop.has_name /\ meta.shop.name # <<>>
       THEN Value(meta.shop.name)
       ELSE fallback

\* embed is the mocked embedding model: whether encoding raises, and the
\* similarities to the categories (scaled to integers) of the text
\* "products" and of any other text.  The result says whether the call
\* raised, and the description if it did not.
describe_store_semantic(domain, meta, offerings, keywords, embed) ==
    LET name == display_name(domain, meta)
        text == composite_text(offerings, keywords)
        sims == IF text = <<"p","r","o","d","u","c","t","s">>
                THEN embed.sims_products ELSE embed.sims
        best_cat == CATEGORIES[FirstMaxIndex(sims)]
    IN IF name.raised THEN name
       ELSE IF embed.exc THEN Raises("embedding failed")
       ELSE Value(name.value \o <<" ","s","e","l","l","s"," ">> \o best_cat
                  \o <<" ","a","n","d"," ","r","e","l","a","t","e","d"," ",
                       "p","r","o","d","u","c","t","s",".">>)

-----------------------------------------------------------------------------
(* analyze_shopify_store(domain).  site is what the mocked fetch layer and  *)
(* the mocked libraries answer for the domain:                              *)
(*   home         response of https://{domain}: exc, html, headers          *)
(*   meta, pages, collections   responses of the three JSON endpoints       *)
(*   prose        trafilatura.extract(html) or ""                           *)
(*   yake         the (term, score) pairs YAKE finds in the prose           *)
(*   embed        the embedding model's answer                              *)
(* now is time.time(), seed the interpreter's hash seed.  The result is     *)
(* what the call did: the record returned or the exception raised, and the  *)
(* requests made, in order.                                                 *)

Req(url, page) == [url |-> url, page |-> page]

Returned(store, log) == [kind |-> "return", store |-> store, log |-> log]
Raised(error, log) == [kind |-> "raise", error |-> error, log |-> log]

\* fetch_home_failed answering with the not-Shopify record
fetch_home_failed_as_rejected(domain) ==
    [domain |-> domain, platform |-> "Not Shopify"]

\* {"domain": domain, "error": f"fetch_home_failed: {e}"}
fetch_home_failed(domain) == [domain |-> domain, error |-> "fetch_home_failed"]

\* {"domain": domain, "platform": "Not Shopify"}
not_shopify(domain) == [domain |-> domain, platform |-> "Not Shopify"]

analyze_shopify_store(domain, site, now, seed) ==
    IF site.home.exc
    THEN Returned(fetch_home_failed(domain), <<Req("home", 0)>>)
    ELSE LET html == site.home.html IN
    IF ~is_shopify_store(html, site.home.headers)
    THEN Returned(not_shopify(domain), <<Req("home", 0)>>)
    ELSE LET meta == fetch_shopify_meta(site.meta)
             got == fetch_shopify_products(site.pages, DefaultLimit, DefaultPageLimit)
             products == got.products
             collections == fetch_shopify_collections(site.collections)
             log == <<Req("home", 0), Req("meta", 0)>>
                    \o [i \in 1..Len(got.requested) |-> Req("products", got.requested[i])]
                    \o <<Req("collections", 0)>>
         IN
    IF products = <<>>
    THEN Returned(not_shopify(domain), log)
    ELSE LET offerings == summarize_products(products, seed)
             keywords == extract_keywords(site.prose, 15, site.yake)
             description == describe_store_semantic(domain, meta, offerings,
                                                    keywords, site.embed)
         IN
    IF description.raised THEN Raised(description.error, log)
    ELSE Returned(
           [domain |-> domain,
            platform |-> "Shopify",
            meta |-> meta,
            description |-> description.value,
            collections |-> [i \in 1..Len(collections) |->
                                [title |-> collections[i].title,
                                 handle |-> collections[i].handle]],
            offerings |-> offerings,
            price_summary |-> summarize_prices(products),
            social_links |-> extract_social_links(html, seed),
            buy_with_prime |-> detect_buy_with_prime(html),
            landing_keywords |-> keywords,
            timestamp |-> now],
           log)

\* loop_body without the platform filter
loop_body_keeps_all(res, d, outcome) ==
    IF outcome.kind = "raise"
    THEN Append(res, [domain |-> d, error |-> outcome.error])
    ELSE Append(res, outcome.store)

\* The body of the run loop for one domain: the results list afterwards
loop_body(res, d, outcome) ==
    IF outcome.kind = "raise"
    THEN Append(res, [domain |-> d, error |-> outcome.error])
    ELSE IF "platform" \in DOMAIN outcome.store /\ outcome.store.platform = "Shopify"
         THEN Append(res, outcome.store)
         ELSE res

-----------------------------------------------------------------------------
(* Bounds                                                                   *)

MaxDomains == 2     \* length of the domain list
MaxClock == 1       \* seconds that may pass during a run
MaxChunks == 2      \* pieces a homepage body is put together from
MaxLimit == 2       \* largest page size tried for fetch_shopify_products
MaxPages == 3       \* largest page_limit tried for fetch_shopify_products
MaxProducts == 2    \* products of a catalog given to summarize_prices
MaxHandlers == 2    \* concurrent request handler threads
MaxCrawls == 2      \* background crawl threads alive at once

-----------------------------------------------------------------------------
(* Fixtures: the inputs and mocked responses the checks draw from           *)

D_alpha == <<"a","l","p","h","a",".","i","o">>
D_bshop == <<"b","-","s","h","o","p",".","c","o","m">>
DomainNames == {D_alpha, D_bshop}

Price(k) == [kind |-> "num", v |-> k]
BadPrice == [kind |-> "bad", v |-> 0]
MissingPrice == [kind |-> "missing", v |-> 0]
Variant(price) == [price |-> price]

P_hat == [title |-> <<"R","e","d"," ","H","a","t">>, product_type |-> <<" ","H","a","t","s">>, vendor |-> <<"A","c","m","e">>,
          tags |-> <<<<"s","a","l","e">>, <<"n","e","w">>>>,
          variants |-> <<Variant(Price(80)), Variant(Price(160))>>]
P_cap == [title |-> <<"X","L"," ","2","0","2","4">>, product_type |-> <<"C","a","p","s">>, vendor |-> <<"A","c","m","e">>,
          tags |-> <<<<"n","e","w">>>>,
          variants |-> <<Variant(Price(81))>>]
P_odd == [title |-> <<"h","a","t",","," ","r","e","d","!">>, product_type |-> <<>>, vendor |-> <<>>,
          tags |-> <<>>,
          variants |-> <<Variant(BadPrice), Variant(Price(0))>>]

\* a page of n products
FullPage(n) == [i \in 1..n |-> P_cap]

PageResp(exc, status, json, valid, null, products) ==
    [exc |-> exc, status |-> status, json |-> json, valid |-> valid,
     null |-> null, products |-> products]

PageRaises == PageResp(TRUE, 0, FALSE, FALSE, FALSE, <<>>)
PageHtml == PageResp(FALSE, 200, FALSE, FALSE, FALSE, <<>>)
PageBadJson == PageResp(FALSE, 200, TRUE, FALSE, FALSE, <<>>)
PageNull == PageResp(FALSE, 200, TRUE, TRUE, TRUE, <<>>)
PageOf(products) == PageResp(FALSE, 200, TRUE, TRUE, FALSE, products)
Page404Of(products) == PageResp(FALSE, 404, TRUE, TRUE, FALSE, products)

MetaResp(exc, status, json, valid, meta) ==
    [exc |-> exc, status |-> status, json |-> json, valid |-> valid, meta |-> meta]
\* {"shop": {"name": "Alpha Hats"}}
MetaNamed == MetaResp(FALSE, 200, TRUE, TRUE,
                      [kind |-> "dict",
                       shop |-> [kind |-> "dict", has_name |-> TRUE,
                                 name |-> <<"A","l","p","h","a"," ","H","a","t","s">>]])
\* {"shop": {}}
MetaUnnamed == MetaResp(FALSE, 200, TRUE, TRUE,
                        [kind |-> "dict",
                         shop |-> [kind |-> "dict", has_name |-> FALSE, name |-> <<>>]])
\* [1]
MetaList == MetaResp(FALSE, 200, TRUE, TRUE,
                     [kind |-> "other", type |-> "list", truthy |-> TRUE])
\* {"shop": null}
MetaShopNull == MetaResp(FALSE, 200, TRUE, TRUE,
                         [kind |-> "dict", shop |-> [kind |-> "other", type |-> "NoneType"]])
MetaRaises == MetaResp(TRUE, 0, FALSE, FALSE, NoMeta)

CollResp(exc, status, json, valid, collections) ==
    [exc |-> exc, status |-> status, json |-> json, valid |-> valid,
     collections |-> collections]
CollOne == CollResp(FALSE, 200, TRUE, TRUE,
                    <<[title |-> <<"H","a","t","s">>, handle |-> <<"h","a","t","s">>, id |-> 7]>>)
Coll404 == CollResp(FALSE, 404, FALSE, FALSE, <<>>)

HomeResp(exc, html, headers) == [exc |-> exc, html |-> html, headers |-> headers]
HomeRaises == HomeResp(TRUE, <<>>, {})
HomePlain == HomeResp(FALSE, <<"<","p",">","H","e","l","l","o","<","/","p",">">>, {<<"S","e","r","v","e","r">>})
HomeByHeader == HomeResp(FALSE, <<"<","p",">","H","a","t","s","<","/","p",">">>, {<<"X","-","S","h","o","p","i","f","y","-","S","t","a","g","e">>})
HomeShop ==
    HomeResp(FALSE,
        <<"c","d","n",".","s","h","o","p","i","f","y",".","c","o","m"," ","h","t","t","p","s",":","/","/","x",".","i","o","/","a"," ","H","T","T","P","S",":","/","/","I","n","s","t","a","g","r","a","m",".","c","o","m","/","h"," ","h","t","t","p",":","/","/","w","w","w",".","i","n","s","t","a","g","r","a","m",".","c","o","m","/","h","/"," ","H","T","T","P","S",":","/","/","I","n","s","t","a","g","r","a","m",".","c","o","m","/","h"," ","b","w","p",".","j","s">>,
        {<<"S","e","r","v","e","r">>})

EmbedResp(exc, sims, sims_products) ==
    [exc |-> exc, sims |-> sims, sims_products |-> sims_products]
SimsTie == <<1, 3, 0, 3, 2, 0, 0, 0, 0, 0, 0, 0, 0, 0, 1>>
SimsFirst == <<4, 3, 0, 3, 2, 0, 0, 0, 0, 0, 0, 0, 0, 0, 1>>
EmbedOk == EmbedResp(FALSE, SimsTie, SimsFirst)
EmbedRaises == EmbedResp(TRUE, SimsTie, SimsFirst)

YakeHats == <<[term |-> <<"C","o","o","k","i","e"," ","P","o","l","i","c","y">>, score |-> 1],
              [term |-> <<" ","W","o","o","l"," ","H","a","t","s",".">>, score |-> 3],
              [term |-> <<"h","i">>, score |-> 2],
              [term |-> <<"c","a","p","s">>, score |-> 2]>>

Site(home, meta, pages, collections, prose, yake, embed) ==
    [home |-> home, meta |-> meta, pages |-> pages, collections |-> collections,
     prose |-> prose, yake |-> yake, embed |-> embed]

\* The sites the mocked web is made of; a domain is served by one of them
Sites ==
    << Site(HomeRaises, MetaNamed, <<PageOf(<<P_hat>>), PageNull>>, CollOne,
           <<"W","o","o","l"," ","h","a","t","s">>, YakeHats, EmbedOk),
      Site(HomePlain, MetaNamed, <<PageOf(<<P_hat>>), PageNull>>, CollOne,
           <<"W","o","o","l"," ","h","a","t","s">>, YakeHats, EmbedOk),
      Site(HomeByHeader, MetaRaises, <<PageRaises, PageOf(<<P_hat>>)>>, Coll404,
           <<>>, <<>>, EmbedOk),
      Site(HomeShop, MetaNamed, <<Page404Of(<<P_hat>>), PageOf(<<P_hat>>)>>, CollOne,
           <<"W","o","o","l"," ","h","a","t","s">>, YakeHats, EmbedOk),
      Site(HomeShop, MetaNamed, <<PageOf(<<P_hat, P_cap, P_odd>>), PageOf(<<P_hat>>)>>,
           CollOne, <<"W","o","o","l"," ","h","a","t","s">>, YakeHats, EmbedRaises),
      Site(HomeShop, MetaNamed, <<PageOf(<<P_hat, P_cap, P_odd>>), PageOf(<<P_hat>>)>>,
           CollOne, <<"W","o","o","l"," ","h","a","t","s">>, YakeHats, EmbedOk),
      Site(HomeByHeader, MetaUnnamed, <<PageOf(<<P_odd>>), PageRaises>>, Coll404,
           <<>>, YakeHats, EmbedOk),
      Site(HomeShop, MetaRaises, <<PageOf(FullPage(DefaultLimit)), PageOf(<<P_odd>>)>>,
           CollOne, <<"W","o","o","l"," ","h","a","t","s">>, YakeHats, EmbedOk),
      Site(HomeByHeader, MetaNamed, <<PageOf(<<>>), PageOf(<<P_hat>>)>>, CollOne,
           <<>>, <<>>, EmbedOk),
      Site(HomeByHeader, MetaNamed, <<PageHtml, PageOf(<<P_hat>>)>>, Coll404,
           <<>>, <<>>, EmbedOk),
      Site(HomeByHeader, MetaList, <<PageOf(<<P_odd>>), PageNull>>, Coll404,
           <<>>, <<>>, EmbedOk),
      Site(HomeByHeader, MetaShopNull, <<PageOf(<<P_odd>>), PageNull>>, Coll404,
           <<>>, <<>>, EmbedOk) >>

SiteIds == DOMAIN Sites

\* The lists analyze_shopify_store makes sets of on a site it profiles: the
\* matches of each platform in the homepage and the words of the product
\* titles
SetsListed(site) ==
    LET products == fetch_shopify_products(site.pages, DefaultLimit,
                                           DefaultPageLimit).products
        titles == [i \in 1..Len(products) |-> products[i].title]
    IN IF site.home.exc THEN {}
       ELSE IF ~is_shopify_store(site.home.html, site.home.headers) THEN {}
       ELSE IF products = <<>> THEN {}
       ELSE {FindAllFrom(site.home.html, 1, SocialPlatforms[p]) :
                p \in DOMAIN SocialPlatforms}
            \cup {title_words(titles)}

\* The lists a run over the sites makes sets of
Listed == UNION {SetsListed(Sites[i]) : i \in SiteIds}

-----------------------------------------------------------------------------
(* Values of the variables a specification does not use                     *)

NoCall == [fn |-> "none"]
Pending == [done |-> FALSE]
Done(value) == [done |-> TRUE, value |-> value]
NotWritten == [done |-> FALSE, data |-> <<>>]

PureIdle == call = NoCall /\ ret = Pending
RunIdle ==
    /\ web = <<>> /\ DOMAINS = <<>> /\ idx = 0 /\ results = <<>>
    /\ outcomes = <<>> /\ clock = 0 /\ written = NotWritten /\ hashseed = 0
AppIdle ==
    /\ lock = FALSE /\ handler = <<>> /\ reply = <<>> /\ crawl = <<>>
    /\ last_run = FALSE

-----------------------------------------------------------------------------
(* The run: the __main__ block of main.py over the loaded domain list       *)

Init ==
    /\ DOMAINS \in SeqsUpTo(DomainNames, MaxDomains)
    /\ web \in [Range(DOMAINS) -> SiteIds]
    /\ idx = 1
    /\ results = <<>>
    /\ outcomes = <<>>
    /\ clock = 0
    /\ written = NotWritten
    /\ hashseed \in HashSeeds(Listed)
    /\ PureIdle /\ AppIdle

\* One iteration of "for d in DOMAINS"
RunStep ==
    /\ idx >= 1 /\ idx <= Len(DOMAINS)
    /\ \E outcome \in {analyze_shopify_store(DOMAINS[idx], Sites[web[DOMAINS[idx]]],
                                              clock, hashseed)} :
          /\ results' = loop_body(results, DOMAINS[idx], outcome)
          /\ outcomes' = Append(outcomes, outcome)
    /\ idx' = idx + 1
    /\ UNCHANGED <<web, DOMAINS, clock, written, hashseed>>
    /\ UNCHANGED pureVars /\ UNCHANGED appVars

\* A second passes
Tick ==
    /\ idx >= 1 /\ ~written.done
    /\ clock < MaxClock
    /\ clock' = clock + 1
    /\ UNCHANGED <<web, DOMAINS, idx, results, outcomes, written, hashseed>>
    /\ UNCHANGED pureVars /\ UNCHANGED appVars

\* After the loop: json.dump(results, f) into shopify_data.json
WriteOut ==
    /\ idx = Len(DOMAINS) + 1 /\ ~written.done
    /\ written' = [done |-> TRUE, data |-> results]
    /\ UNCHANGED <<web, DOMAINS, idx, results, outcomes, clock, hashseed>>
    /\ UNCHANGED pureVars /\ UNCHANGED appVars

Next == RunStep \/ Tick \/ WriteOut

Spec == Init /\ [][Next]_vars

-----------------------------------------------------------------------------
(* The pipeline run twice for one domain on the same mocked responses,      *)
(* possibly in two interpreter processes                                    *)

InitIdem ==
    /\ web \in [{D_alpha} -> SiteIds]
    /\ DOMAINS = <<D_alpha>>
    /\ idx = 1
    /\ results = <<>>
    /\ outcomes = <<>>
    /\ clock = 0
    /\ written = NotWritten
    /\ hashseed \in HashSeeds(Listed)
    /\ PureIdle /\ AppIdle

\* analyze_shopify_store(domain) is called once more
AnalyzeAgain ==
    /\ Len(outcomes) < 2
    /\ \E outcome \in {analyze_shopify_store(D_alpha, Sites[web[D_alpha]],
                                              clock, hashseed)} :
          outcomes' = Append(outcomes, outcome)
    /\ UNCHANGED <<web, DOMAINS, idx, results, clock, written, hashseed>>
    /\ UNCHANGED pureVars /\ UNCHANGED appVars

\* The interpreter is started anew: another hash seed
Restart ==
    /\ Len(outcomes) < 2
    /\ hashseed' \in HashSeeds(Listed) \ {hashseed}
    /\ UNCHANGED <<web, DOMAINS, idx, results, outcomes, clock, written>>
    /\ UNCHANGED pureVars /\ UNCHANGED appVars

NextIdem == AnalyzeAgain \/ Tick \/ Restart

SpecIdem == InitIdem /\ [][NextIdem]_vars

-----------------------------------------------------------------------------
(* is_shopify_store applied to a homepage body and its header keys          *)

BodyChunks ==
    { <<"c","d","n",".","S","h","o","p","i","f","y",".","c","o","m"," ">>, <<"S","h","o","p","i","f","y","-","F","e","a","t","u","r","e","s"," ">>, <<"m","y"," ","S","H","O","P","I","F","Y"," ">>, <<"<","S","c","r","i","p","t",">"," ">>,
      <<"/","C","a","r","t"," ">>, <<"/","p","r","o","d","u","c","t","s","/"," ">>, <<"h","e","l","l","o"," ">> }

HeaderKeys == { <<"X","-","S","h","o","p","I","d">>, <<"X","-","S","h","o","p","i","f","y","-","S","t","a","g","e">>, <<"S","e","r","v","e","r">> }

InitDetect ==
    /\ \E chunks \in SeqsUpTo(BodyChunks, MaxChunks), headers \in SUBSET HeaderKeys :
          call = [fn |-> "is_shopify_store", html_str |-> Flatten(chunks),
                  headers |-> headers]
    /\ ret = Pending
    /\ RunIdle /\ AppIdle

Detect ==
    /\ call.fn = "is_shopify_store" /\ ~ret.done
    /\ ret' = Done(is_shopify_store(call.html_str, call.headers))
    /\ UNCHANGED call /\ UNCHANGED runVars /\ UNCHANGED appVars

SpecDetect == InitDetect /\ [][Detect]_vars

-----------------------------------------------------------------------------
(* fetch_shopify_products applied to mocked product pages                   *)

\* n products of page number page
Batch(page, n) == [i \in 1..n |-> [id |-> <<page, i>>]]

\* What the products endpoint may answer for a page
PageChoices(page, limit) ==
    {PageRaises, PageHtml, PageBadJson, PageNull, Page404Of(Batch(page, 1))}
    \cup {PageOf(Batch(page, n)) : n \in 0..(limit + 1)}

InitProducts ==
    /\ \E limit \in 1..MaxLimit, page_limit \in 0..MaxPages :
          \E pages \in [1..page_limit -> UNION {PageChoices(p, limit) : p \in 1..page_limit}] :
             /\ \A p \in 1..page_limit : pages[p] \in PageChoices(p, limit)
             /\ call = [fn |-> "fetch_shopify_products", pages |-> pages,
                        limit |-> limit, page_limit |-> page_limit]
    /\ ret = Pending
    /\ RunIdle /\ AppIdle

FetchProducts ==
    /\ call.fn = "fetch_shopify_products" /\ ~ret.done
    /\ ret' = Done(fetch_shopify_products(call.pages, call.limit, call.page_limit))
    /\ UNCHANGED call /\ UNCHANGED runVars /\ UNCHANGED appVars

SpecProducts == InitProducts /\ [][FetchProducts]_vars

-----------------------------------------------------------------------------
(* summarize_prices applied to a product list                               *)

Priced(variants) == [variants |-> variants]

\* Products by their variant prices, in eighths: 10.00 is 80, 10.125 is 81
PricedProducts ==
    { Priced(<<>>),
      Priced(<<Variant(Price(80))>>),
      Priced(<<Variant(Price(81))>>),
      Priced(<<Variant(Price(0)), Variant(BadPrice)>>),
      Priced(<<Variant(Price(-40)), Variant(MissingPrice)>>),
      Priced(<<Variant(Price(160)), Variant(Price(27))>>),
      Priced(<<Variant(Price(12))>>) }

\* The catalog of the price aggregation example: [0, -5, "bad", 10.00, 20.00]
ExampleCatalog ==
    << Priced(<<Variant(Price(0)), Variant(Price(-40)), Variant(BadPrice)>>),
       Priced(<<Variant(Price(80)), Variant(Price(160))>>) >>

InitPrices ==
    /\ \E products \in SeqsUpTo(PricedProducts, MaxProducts) \cup {ExampleCatalog} :
          call = [fn |-> "summarize_prices", products |-> products]
    /\ ret = Pending
    /\ RunIdle /\ AppIdle

SummarizePrices ==
    /\ call.fn = "summarize_prices" /\ ~ret.done
    /\ ret' = Done(summarize_prices(call.products))
    /\ UNCHANGED call /\ UNCHANGED runVars /\ UNCHANGED appVars

SpecPrices == InitPrices /\ [][SummarizePrices]_vars

-----------------------------------------------------------------------------
(* The re-crawl trigger of app.py.  Request handler threads run recrawl(),  *)
(* one statement at a time; each started thread runs _async_crawl().        *)
(*   handler[h]: "idle", "check" (about to test os.path.exists),            *)
(*               "create" (about to create the lock file),                  *)
(*               "start" (about to start the thread)                        *)
(*   crawl[c].pc: "idle", "run" (in run_crawler), "write" (about to write   *)
(*               last_run.txt), "finally" (about to remove the lock file)   *)
(*   crawl[c].how: how the thread's last run left the try block             *)

Handlers == 1..MaxHandlers
Crawls == 1..MaxCrawls

Busy == Cardinality({h \in Handlers : handler[h] # "idle"})
        + Cardinality({c \in Crawls : crawl[c].pc # "idle"})

InitApp ==
    /\ lock = FALSE
    /\ handler = [h \in Handlers |-> "idle"]
    /\ reply = [h \in Handlers |-> "none"]
    /\ crawl = [c \in Crawls |-> [pc |-> "idle", how |-> "none"]]
    /\ last_run = FALSE
    /\ PureIdle /\ RunIdle

\* POST /api/re-crawl reaches a free handler thread (as long as a thread
\* is left for the crawl it may start)
Request(h) ==
    /\ handler[h] = "idle"
    /\ Busy < MaxCrawls
    /\ handler' = [handler EXCEPT ![h] = "check"]
    /\ UNCHANGED <<lock, reply, crawl, last_run>>
    /\ UNCHANGED pureVars /\ UNCHANGED runVars

\* if os.path.exists(lock_path): return jsonify({"status": "busy"}), 429
CheckLock(h) ==
    /\ handler[h] = "check"
    /\ IF lock
       THEN /\ handler' = [handler EXCEPT ![h] = "idle"]
            /\ reply' = [reply EXCEPT ![h] = "busy"]
       ELSE /\ handler' = [handler EXCEPT ![h] = "create"]
            /\ UNCHANGED reply
    /\ UNCHANGED <<lock, crawl, last_run>>
    /\ UNCHANGED pureVars /\ UNCHANGED runVars

\* open(lock_path, 'w').close()
CreateLock(h) ==
    /\ handler[h] = "create"
    /\ lock' = TRUE
    /\ handler' = [handler EXCEPT ![h] = "start"]
    /\ UNCHANGED <<reply, crawl, last_run>>
    /\ UNCHANGED pureVars /\ UNCHANGED runVars

\* threading.Thread(target=_async_crawl).start(); return {"status": "started"}
StartThread(h) ==
    /\ handler[h] = "start"
    /\ \E c \in Crawls :
          /\ crawl[c].pc = "idle"
          /\ \A b \in Crawls : crawl[b].pc = "idle" => c <= b
          /\ crawl' = [crawl EXCEPT ![c] = [pc |-> "run", how |-> "none"]]
    /\ handler' = [handler EXCEPT ![h] = "idle"]
    /\ reply' = [reply EXCEPT ![h] = "started"]
    /\ UNCHANGED <<lock, last_run>>
    /\ UNCHANGED pureVars /\ UNCHANGED runVars

\* run_crawler() returns
CrawlReturns(c) ==
    /\ crawl[c].pc = "run"
    /\ crawl' = [crawl EXCEPT ![c].pc = "write"]
    /\ UNCHANGED <<lock, handler, reply, last_run>>
    /\ UNCHANGED pureVars /\ UNCHANGED runVars

\* run_crawler() raises (the import fails, or the run does)
CrawlRaises(c) ==
    /\ crawl[c].pc = "run"
    /\ crawl' = [crawl EXCEPT ![c] = [pc |-> "finally", how |-> "raised"]]
    /\ UNCHANGED <<lock, handler, reply, last_run>>
    /\ UNCHANGED pureVars /\ UNCHANGED runVars

\* with open('output/last_run.txt', 'w') as f: f.write(...), which may
\* raise (no output directory)
WriteLastRun(c) ==
    /\ crawl[c].pc = "write"
    /\ \/ /\ last_run' = TRUE
          /\ crawl' = [crawl EXCEPT ![c] = [pc |-> "finally", how |-> "returned"]]
       \/ /\ UNCHANGED last_run
          /\ crawl' = [crawl EXCEPT ![c] = [pc |-> "finally", how |-> "raised"]]
    /\ UNCHANGED <<lock, handler, reply>>
    /\ UNCHANGED pureVars /\ UNCHANGED runVars

\* RemoveLock as if os.remove were the last statement of the try block:
\* skipped when the block is left by an exception
RemoveLock_after_try(c) ==
    /\ crawl[c].pc = "finally"
    /\ lock' = IF crawl[c].how = "raised" THEN lock ELSE FALSE
    /\ crawl' = [crawl EXCEPT ![c].pc = "idle"]
    /\ UNCHANGED <<handler, reply, last_run>>
    /\ UNCHANGED pureVars /\ UNCHANGED runVars

\* finally: os.remove('crawler.lock'), which raises FileNotFoundError when
\* the file is gone; the thread ends either way
RemoveLock(c) ==
    /\ crawl[c].pc = "finally"
    /\ lock' = FALSE
    /\ crawl' = [crawl EXCEPT ![c] = [pc |-> "idle",
                                      how |-> IF lock THEN crawl[c].how
                                              ELSE "remove_raised"]]
    /\ UNCHANGED <<handler, reply, last_run>>
    /\ UNCHANGED pureVars /\ UNCHANGED runVars

HandlerStep(h) == CheckLock(h) \/ CreateLock(h) \/ StartThread(h)
CrawlStep(c) == CrawlReturns(c) \/ CrawlRaises(c) \/ WriteLastRun(c) \/ RemoveLock(c)

NextApp ==
    \/ \E h \in Handlers : Request(h)
    \/ \E h \in Handlers : CheckLock(h)
    \/ \E h \in Handlers : CreateLock(h)
    \/ \E h \in Handlers : StartThread(h)
    \/ \E c \in Crawls : CrawlReturns(c)
    \/ \E c \in Crawls : CrawlRaises(c)
    \/ \E c \in Crawls : WriteLastRun(c)
    \/ \E c \in Crawls : RemoveLock(c)

SpecApp == InitApp /\ [][NextApp]_vars

\* Threads that can take a step are scheduled, and a crawl comes to an end
\* (every fetch has a timeout); requests need not keep coming
LiveApp ==
    /\ SpecApp
    /\ \A h \in Handlers : WF_vars(HandlerStep(h))
    /\ \A c \in Crawls : WF_vars(CrawlStep(c))

-----------------------------------------------------------------------------
(* Terminal states of a domain's pipeline, read off what                    *)
(* analyze_shopify_store did                                                *)

IsFetchError(o) == o.kind = "return" /\ "error" \in DOMAIN o.store
IsRejected(o) ==
    /\ o.kind = "return" /\ "platform" \in DOMAIN o.store
    /\ o.store.platform = "Not Shopify"
IsDone(o) ==
    /\ o.kind = "return" /\ "platform" \in DOMAIN o.store
    /\ o.store.platform = "Shopify"
IsRaise(o) == o.kind = "raise"

\* The records of the written result set that are about domain d
RecordsOf(d) == {k \in DOMAIN written.data : written.data[k].domain = d}

\* The site that serves the i-th entry of the domain list
SiteAt(i) == Sites[web[DOMAINS[i]]]

\* Page 1 of the site's product endpoint answers 200/JSON with products
YieldsProducts(site) ==
    LET r == site.pages[1]
    IN ~r.exc /\ r.status = 200 /\ r.json /\ r.valid /\ ~r.null /\ r.products # <<>>

\* The site's homepage arrives and passes the platform heuristic
Detected(site) ==
    ~site.home.exc /\ is_shopify_store(site.home.html, site.home.headers)

-----------------------------------------------------------------------------
(* C1 as stated: once the result set is written, every input domain whose   *)
(* pipeline ended in a terminal state (FetchError, PlatformRejected or      *)
(* Done) has a record in it, as many records as it has entries in the list  *)
C1_EveryDomainAccounted ==
    written.done =>
        \A d \in Range(DOMAINS) :
            Cardinality(RecordsOf(d))
              >= Cardinality({i \in 1..Len(DOMAINS) :
                                 /\ DOMAINS[i] = d
                                 /\ \/ IsFetchError(outcomes[i])
                                    \/ IsRejected(outcomes[i])
                                    \/ IsDone(outcomes[i])})

\* The entries of the domain list that get a record: pipeline Done or raised
KeptEntries ==
    LET Keeps(i) == IsDone(outcomes[i]) \/ IsRaise(outcomes[i])
    IN SelectSeq([i \in 1..Len(outcomes) |-> i], Keeps)

(* C1 amended: the written result set holds, in input order, exactly one    *)
(* record for every entry of the domain list whose pipeline ended Done (the *)
(* full profile) or raised an exception (an error record); entries that     *)
(* ended in FetchError or PlatformRejected have no record                   *)
C1_OnlyDoneOrRaisedRecorded ==
    written.done =>
        /\ Len(outcomes) = Len(DOMAINS)
        /\ Len(written.data) = Len(KeptEntries)
        /\ \A k \in 1..Len(KeptEntries) :
              LET i == KeptEntries[k]
                  rec == written.data[k]
              IN /\ rec.domain = DOMAINS[i]
                 /\ IsDone(outcomes[i]) => rec = outcomes[i].store
                 /\ IsRaise(outcomes[i]) =>
                        "error" \in DOMAIN rec /\ "platform" \notin DOMAIN rec

\* C1 witness: a written run in which one entry ended in FetchError or
\* PlatformRejected and another ended Done
C1_Witness ==
    /\ written.done
    /\ \E i, j \in 1..Len(outcomes) :
          /\ IsFetchError(outcomes[i]) \/ IsRejected(outcomes[i])
          /\ IsDone(outcomes[j])

-----------------------------------------------------------------------------
(* C2: analyze_shopify_store returns platform = "Shopify" only if the       *)
(* product retrieval yielded a product, and a homepage that passes the      *)
(* heuristic with no product retrieved gives the verdict "Not Shopify"      *)
C2_QualifyingNeedsProducts ==
    \A i \in 1..Len(outcomes) :
        /\ IsDone(outcomes[i]) => YieldsProducts(SiteAt(i))
        /\ (Detected(SiteAt(i)) /\ ~YieldsProducts(SiteAt(i)))
              => IsRejected(outcomes[i])

\* C2 witness: a detected homepage whose product endpoint yields nothing
\* was analysed
C2_Witness ==
    \E i \in 1..Len(outcomes) :
        /\ Detected(SiteAt(i)) /\ ~YieldsProducts(SiteAt(i))
        /\ IsRejected(outcomes[i])

-----------------------------------------------------------------------------
(* C5: when the homepage fetch fails, analyze_shopify_store returns a       *)
(* record with the failure reason and no platform verdict, and the homepage *)
(* request is the only request made for the domain                          *)
C5_FetchErrorIsTerminal ==
    \A i \in 1..Len(outcomes) :
        SiteAt(i).home.exc =>
            /\ outcomes[i].kind = "return"
            /\ outcomes[i].store.domain = DOMAINS[i]
            /\ "error" \in DOMAIN outcomes[i].store
            /\ outcomes[i].store.error = "fetch_home_failed"
            /\ "platform" \notin DOMAIN outcomes[i].store
            /\ outcomes[i].log = <<Req("home", 0)>>

\* C5 witness: a domain whose homepage fetch fails was analysed
C5_Witness ==
    \E i \in 1..Len(outcomes) : SiteAt(i).home.exc /\ IsFetchError(outcomes[i])

-----------------------------------------------------------------------------
(* C6 as stated: the run analyses every entry of the list in order and      *)
(* reaches the end, and every entry that failed (homepage fetch failure or  *)
(* an exception in the pipeline) has an error record in the result set      *)
C6_FailuresRecordedInline ==
    written.done =>
        /\ Len(outcomes) = Len(DOMAINS)
        /\ \A i \in 1..Len(DOMAINS) :
              (IsFetchError(outcomes[i]) \/ IsRaise(outcomes[i])) =>
                  \E k \in RecordsOf(DOMAINS[i]) : "error" \in DOMAIN written.data[k]

-----------------------------------------------------------------------------
\* The page's response can be read: 200, JSON, a dict with a product list
PageReadable(r) == ~r.exc /\ r.status = 200 /\ r.json /\ r.valid /\ ~r.null

\* The products of the pages requested that could be read, in order
ProductsRead(pages, requested) ==
    Flatten([i \in 1..Len(requested) |->
                IF PageReadable(pages[requested[i]])
                THEN pages[requested[i]].products ELSE <<>>])

(* C3: fetch_shopify_products requests pages 1, 2, ... in increasing order, *)
(* each once and none beyond page_limit; it requests page n+1 only if page  *)
(* n answered 200/JSON with at least limit products, stops at the first     *)
(* page that does not, and returns the products of the pages read, joined   *)
C3_PaginationStops ==
    ret.done /\ call.fn = "fetch_shopify_products" =>
        LET pages == call.pages
            limit == call.limit
            requested == ret.value.requested
            k == Len(requested)
            GoesOn(n) == PageReadable(pages[n]) /\ Len(pages[n].products) >= limit
        IN /\ \A i \in 1..k : requested[i] = i
           /\ k <= call.page_limit
           /\ call.page_limit >= 1 => k >= 1
           /\ \A n \in 1..(k - 1) : GoesOn(n)
           /\ k < call.page_limit => ~GoesOn(k)
           /\ ret.value.products = ProductsRead(pages, requested)

\* C3 witness: a full page 1, then an empty page 2, with a third page allowed
C3_Witness ==
    /\ ret.done /\ call.fn = "fetch_shopify_products"
    /\ call.page_limit = 3
    /\ call.pages[1] = PageOf(Batch(1, call.limit))
    /\ call.pages[2] = PageOf(<<>>)
    /\ ret.value.requested = <<1, 2>>
    /\ Len(ret.value.products) = call.limit

-----------------------------------------------------------------------------
\* The variant prices that are numeric and strictly positive, by position
Contributing(products) ==
    {pos \in UNION {{<<i, j>> : j \in 1..Len(products[i].variants)} :
                       i \in 1..Len(products)} :
        LET price == products[pos[1]].variants[pos[2]].price
        IN price.kind = "num" /\ price.v > 0}

\* The value, in eighths, of the price at a position
PriceAt(products, pos) == products[pos[1]].variants[pos[2]].price.v

RECURSIVE TotalOf(_, _)
\* The sum, in eighths, of the prices at the positions
TotalOf(products, positions) ==
    IF positions = {} THEN 0
    ELSE LET pos == CHOOSE x \in positions : TRUE
         IN PriceAt(products, pos) + TotalOf(products, positions \ {pos})

\* What C7 says of the summary apart from where the mean lies: absent iff
\* no price contributes, else count, min and max of the contributing prices
PriceSummaryCounts(products, summary) ==
    LET contributing == Contributing(products)
        values == {PriceAt(products, pos) : pos \in contributing}
    IN /\ summary.none <=> contributing = {}
       /\ ~summary.none =>
             /\ summary.num_prices = Cardinality(contributing)
             /\ summary.min_price = Min(values)
             /\ summary.max_price = Max(values)

(* C7 as stated: the summary is absent iff no variant price is numeric and  *)
(* positive; else count, min and max are those of the contributing prices   *)
(* and the mean rounded to 2 places satisfies min <= mean <= max            *)
C7_MeanBetweenMinAndMax ==
    ret.done /\ call.fn = "summarize_prices" =>
        /\ PriceSummaryCounts(call.products, ret.value)
        /\ ~ret.value.none =>
              /\ 25 * ret.value.min_price <= 2 * ret.value.avg_price
              /\ 2 * ret.value.avg_price <= 25 * ret.value.max_price

(* C7 amended: absent iff no variant price is numeric and positive; else    *)
(* count, min and max are those of the contributing prices, the mean is     *)
(* within half a hundredth of their arithmetic mean, and min <= mean <= max *)
(* holds when every contributing price is a whole number of hundredths      *)
C7_RoundedMean ==
    ret.done /\ call.fn = "summarize_prices" =>
        /\ PriceSummaryCounts(call.products, ret.value)
        /\ ~ret.value.none =>
              LET contributing == Contributing(call.products)
                  n == Cardinality(contributing)
                  total == TotalOf(call.products, contributing)
                  off == 2 * n * ret.value.avg_price - 25 * total
              IN /\ 2 * off <= 2 * n /\ 2 * off >= -(2 * n)
                 /\ (\A pos \in contributing : PriceAt(call.products, pos) % 2 = 0)
                       => /\ 25 * ret.value.min_price <= 2 * ret.value.avg_price
                          /\ 2 * ret.value.avg_price <= 25 * ret.value.max_price

\* C7 witness: the catalog [0, -5, "bad"], [10.00, 20.00] was summarized as
\* min 10.00, max 20.00, mean 15.00, count 2
C7_Witness ==
    /\ ret.done /\ call.fn = "summarize_prices"
    /\ call.products = ExampleCatalog
    /\ ret.value = [none |-> FALSE, min_price |-> 80, max_price |-> 160,
                    avg_price |-> 1500, num_prices |-> 2]

-----------------------------------------------------------------------------
\* The homepage body of the call holds the string, in any letter case
BodyHas(sub) == Contains(lower(call.html_str), sub)

\* The four signals C8 names
FourSignals ==
    \/ BodyHas(S_cdn)
    \/ BodyHas(S_features)
    \/ \E k \in call.headers : Contains(lower(k), S_shopify)
    \/ BodyHas(S_cart) /\ BodyHas(S_products)

(* C8 as stated: is_shopify_store returns true iff one of four signals      *)
(* holds: CDN host in the body, feature flag in the body, a header key with *)
(* the platform's name, or both the cart and the product route in the body  *)
C8_ExactlyFourSignals ==
    ret.done /\ call.fn = "is_shopify_store" => (ret.value <=> FourSignals)

(* C8 amended: is_shopify_store returns true iff one of five signals holds: *)
(* the four above, or the body holds both "shopify" and "script"            *)
C8_FiveSignals ==
    ret.done /\ call.fn = "is_shopify_store" =>
        (ret.value <=> (FourSignals \/ (BodyHas(S_shopify) /\ BodyHas(S_script))))

\* C8 witness: a body with "shopify" and "script" and none of the four
\* signals was taken for a Shopify store
C8_Witness ==
    /\ ret.done /\ call.fn = "is_shopify_store"
    /\ ~FourSignals
    /\ BodyHas(S_shopify) /\ BodyHas(S_script)
    /\ ret.value = TRUE

-----------------------------------------------------------------------------
\* The social links of two records name the same platforms in the same
\* order, with the same links for each, in whatever order
SameLinks(a, b) ==
    /\ Len(a) = Len(b)
    /\ \A k \in 1..Len(a) :
          /\ a[k].platform = b[k].platform
          /\ Len(a[k].links) = Len(b[k].links)
          /\ Range(a[k].links) = Range(b[k].links)

\* Two outcomes of the pipeline agree on all but the capture timestamp and
\* the order of the social links
SameButTimeAndLinkOrder(a, b) ==
    /\ a.kind = b.kind
    /\ a.log = b.log
    /\ a.kind = "raise" => a.error = b.error
    /\ a.kind = "return" =>
          /\ DOMAIN a.store = DOMAIN b.store
          /\ \A f \in DOMAIN a.store \ {"timestamp", "social_links"} :
                a.store[f] = b.store[f]
          /\ "social_links" \in DOMAIN a.store =>
                SameLinks(a.store.social_links, b.store.social_links)

(* C9 as stated: two runs of the pipeline on the same mocked responses      *)
(* give records that are identical in every field, the social-link          *)
(* collections and the capture timestamp included                           *)
C9_IdenticalRecords ==
    \A i, j \in 1..Len(outcomes) : outcomes[i] = outcomes[j]

(* C9 amended: two runs of the pipeline on the same mocked responses give   *)
(* records identical in every field but the capture timestamp (the time of  *)
(* each run) and the order of the links of a platform in the social-link    *)
(* collections, which hold the same links                                   *)
C9_IdenticalButTimeAndLinkOrder ==
    \A i, j \in 1..Len(outcomes) :
        SameButTimeAndLinkOrder(outcomes[i], outcomes[j])

\* C9 witness: two runs that gave full profiles with different timestamps
\* and differently ordered social links
C9_Witness ==
    /\ Len(outcomes) = 2
    /\ IsDone(outcomes[1]) /\ IsDone(outcomes[2])
    /\ outcomes[1].store.timestamp # outcomes[2].store.timestamp
    /\ outcomes[1].store.social_links # outcomes[2].store.social_links
    /\ Len(outcomes[1].store.offerings.title_terms_top) >= 2

-----------------------------------------------------------------------------
(* C4 as stated: under any interleaving of re-crawl requests at most one    *)
(* background crawl is in progress, and a request that finds a crawl in     *)
(* progress starts none                                                     *)
C4_NoOverlappingCrawls ==
    Cardinality({c \in Crawls : crawl[c].pc # "idle"}) <= 1

-----------------------------------------------------------------------------
(* C10: whenever a background crawl ends, by returning or by raising, the   *)
(* lock file is gone, and the busy flag never stays set forever             *)
C10_LockReleased ==
    /\ [][\A c \in Crawls :
             (crawl[c].pc # "idle" /\ crawl'[c].pc = "idle") => ~lock']_vars
    /\ lock ~> ~lock

\* C10 witness: a crawl started by a request has raised and ended, and the
\* lock file is gone
C10_Witness ==
    /\ ~lock
    /\ \E c \in Crawls : crawl[c].pc = "idle" /\ crawl[c].how = "raised"
    /\ \E h \in Handlers : reply[h] = "started"

====
